---------------------------- MODULE Spec2Model ----------------------------
(***************************************************************************)
(* A model of the JSON-LD processor of src/js/jsonld.js: the URL           *)
(* resolution pass (_resolveUrls) with the public operations that call it, *)
(* and the synchronous rewrite core (Processor.expand, Processor.compact,  *)
(* Processor.mergeContexts and their helpers).                             *)
(*                                                                         *)
(* Strings are sequences of lexemes.  A lexeme is a run of characters that *)
(* the code never splits: ":", "/", "@", " ", "{", "}" and words (runs of  *)
(* \w).  No word of LexOrder is a prefix of another one, so equality,      *)
(* comparison, indexOf and substr on lexeme sequences agree with the same  *)
(* operations on the characters.                                           *)
(*                                                                         *)
(* A JSON value is a tagged tuple: <<"null">>, <<"undef">>, <<"bool", b>>, *)
(* <<"num", n>>, <<"str", s>>, <<"arr", elements>>, <<"obj", pairs>> with  *)
(* pairs a sequence of <<key, value>> in insertion order.  A thrown        *)
(* exception is the value <<"error", type, details>>.                      *)
(***************************************************************************)
EXTENDS Integers, Sequences, FiniteSets, TLC

(***************************************************************************)
(* Bounds of the checked instances.                                        *)
(***************************************************************************)
MaxCtxLen == 2

(***************************************************************************)
(* Strings.                                                                *)
(***************************************************************************)
\* The lexemes in the order of their characters' codes (Array.prototype.sort).
LexOrder == <<" ", "/", "0", "1", "2", ":", "@", "a", "b", "container",
              "context", "default", "embed", "explicit", "false", "ftp",
              "graph", "http", "id", "k", "language", "list", "m", "null",
              "omitDefault", "pre", "q", "set", "true", "type", "undefined",
              "value", "x", "y", "z", "{", "}">>

\* The lexemes that are runs of word characters (\w+).
Words == {LexOrder[i] : i \in 1..Len(LexOrder)} \ {" ", "/", ":", "@", "{", "}"}

LexRank(l) == CHOOSE i \in 1..Len(LexOrder) : LexOrder[i] = l

\* s < t as JavaScript compares strings
RECURSIVE StrLess(_, _)
StrLess(s, t) ==
  IF t = <<>> THEN FALSE
  ELSE IF s = <<>> THEN TRUE
  ELSE IF Head(s) = Head(t) THEN StrLess(Tail(s), Tail(t))
  ELSE LexRank(Head(s)) < LexRank(Head(t))

Http(rest) == <<"http", ":", "/", "/">> \o rest

Kw(name) == <<"@", name>>

kContext == Kw("context")
kId == Kw("id")
kType == Kw("type")
kValue == Kw("value")
kLanguage == Kw("language")
kList == Kw("list")
kSet == Kw("set")
kGraph == Kw("graph")
kContainer == Kw("container")

\* s.indexOf(t) === 0
StartsWith(s, t) == Len(t) <= Len(s) /\ SubSeq(s, 1, Len(t)) = t

\* s.indexOf(':'), 0 when there is none (positions count from 1)
IndexOfColon(s) ==
  IF \E i \in 1..Len(s) : s[i] = ":"
  THEN CHOOSE i \in 1..Len(s) : s[i] = ":" /\ \A j \in 1..(i - 1) : s[j] # ":"
  ELSE 0

(***************************************************************************)
(* JSON values.                                                            *)
(***************************************************************************)
JNull == <<"null">>
JUndef == <<"undef">>
JBool(b) == <<"bool", b>>
JNum(n) == <<"num", n>>
JStr(s) == <<"str", s>>
JArr(es) == <<"arr", es>>
JObj(ps) == <<"obj", ps>>
JError(type, details) == <<"error", type, details>>
EmptyObj == JObj(<<>>)

IsErr(v) == v[1] = "error"

\* what calling or reading a property of null or undefined throws
TypeError == JError("TypeError", <<>>)

\* JavaScript truthiness
Truthy(v) ==
  CASE v[1] = "null" -> FALSE
    [] v[1] = "undef" -> FALSE
    [] v[1] = "bool" -> v[2]
    [] v[1] = "num" -> v[2] # 0
    [] v[1] = "str" -> v[2] # <<>>
    [] OTHER -> TRUE

\* a || b
Or(a, b) == IF Truthy(a) THEN a ELSE b

HasKey(o, k) == \E i \in 1..Len(o[2]) : o[2][i][1] = k

\* o[k]; undefined when the key is absent
Get(o, k) ==
  IF HasKey(o, k)
  THEN o[2][CHOOSE i \in 1..Len(o[2]) : o[2][i][1] = k][2]
  ELSE JUndef

\* o[k] = v: an existing key keeps its place, a new key goes last
Put(o, k, v) ==
  IF HasKey(o, k)
  THEN JObj([i \in 1..Len(o[2]) |->
              IF o[2][i][1] = k THEN <<k, v>> ELSE o[2][i]])
  ELSE JObj(Append(o[2], <<k, v>>))

\* delete o[k]
Del(o, k) == JObj(SelectSeq(o[2], LAMBDA p : p[1] # k))

KeysOf(o) == [i \in 1..Len(o[2]) |-> o[2][i][1]]

_isObject(input) == input[1] = "obj"

_isArray(input) == input[1] = "arr"

_isString(input) == input[1] = "str" /\ input[2] # <<>>

_isNumber(input) == input[1] = "num" /\ input[2] # 0

_isBoolean(input) == input[1] = "bool" /\ input[2]

(***************************************************************************)
(* _clone: objects are copied with their keys sorted.                      *)
(***************************************************************************)
RECURSIVE InsertSorted(_, _)
InsertSorted(ps, p) ==
  IF ps = <<>> THEN <<p>>
  ELSE IF StrLess(p[1], Head(ps)[1]) THEN <<p>> \o ps
  ELSE <<Head(ps)>> \o InsertSorted(Tail(ps), p)

RECURSIVE SortPairs(_)
SortPairs(ps) ==
  IF ps = <<>> THEN <<>>
  ELSE InsertSorted(SortPairs(SubSeq(ps, 1, Len(ps) - 1)), ps[Len(ps)])

RECURSIVE _clone(_)
_clone(value) ==
  IF _isObject(value)
  THEN JObj(SortPairs([i \in 1..Len(value[2]) |->
                        <<value[2][i][1], _clone(value[2][i][2])>>]))
  ELSE IF _isArray(value)
  THEN JArr([i \in 1..Len(value[2]) |-> _clone(value[2][i])])
  ELSE value

(***************************************************************************)
(* _resolveUrls: the traversal findUrls(input, replace).  It returns the   *)
(* input and the urls map as the traversal leaves them.                    *)
(***************************************************************************)
\* urls[u] = {} of the discovery traversal (lines 1324 and 1337)
AddUrlDup(urls, u) == JObj(Append(urls[2], <<u, EmptyObj>>))
AddUrl(urls, u) == Put(urls, u, EmptyObj)

\* the loop over an array @context (lines 1316-1327)
RECURSIVE findUrlsCtxArray(_, _, _, _)
findUrlsCtxArray(ctx, i, replace, urls) ==
  IF i > Len(ctx) THEN <<ctx, urls>>
  ELSE IF _isString(ctx[i])
  THEN IF replace
       THEN findUrlsCtxArray([ctx EXCEPT ![i] = Get(urls, ctx[i][2])],
                             i + 1, replace, urls)
       ELSE findUrlsCtxArray(ctx, i + 1, replace, AddUrl(urls, ctx[i][2]))
  ELSE findUrlsCtxArray(ctx, i + 1, replace, urls)

RECURSIVE findUrls(_, _, _)
RECURSIVE findUrlsElems(_, _, _, _)
findUrlsElems(es, i, replace, urls) ==
  IF i > Len(es) THEN <<es, urls>>
  ELSE LET r == findUrls(es[i], replace, urls)
       IN findUrlsElems([es EXCEPT ![i] = r[1]], i + 1, replace, r[2])

findUrls(input, replace, urls) ==
  IF _isArray(input)
  THEN LET r == findUrlsElems(input[2], 1, replace, urls)
       IN <<JArr(r[1]), r[2]>>
  ELSE IF _isObject(input) /\ HasKey(input, kContext)
  THEN LET ctx == Get(input, kContext)
       IN IF _isArray(ctx)
          THEN LET r == findUrlsCtxArray(ctx[2], 1, replace, urls)
               IN <<Put(input, kContext, JArr(r[1])), r[2]>>
          ELSE IF _isString(ctx)
          THEN IF replace
               THEN <<Put(input, kContext, Get(urls, ctx[2])), urls>>
               ELSE <<input, AddUrl(urls, ctx[2])>>
          ELSE <<input, urls>>
  ELSE <<input, urls>>

\* the URL regex of line 1370: http:// or https:// and a non-blank after it
UrlRegexTest(url) ==
  \E i \in 1..Len(url) :
     /\ url[i] \in {"http", "https"}
     /\ i + 4 <= Len(url)
     /\ url[i + 1] = ":" /\ url[i + 2] = "/" /\ url[i + 3] = "/"
     /\ url[i + 4] # " "

\* JSON.parse of a fetched string: "{" u "}" is the text of the document
\* that U's server holds, any other text does not parse
RemoteContext(u) == JObj(<< <<(<<"k">>), JStr(u \o <<"/", "k">>)>> >>)
RemoteDoc(u) == JObj(<< <<kContext, RemoteContext(u)>> >>)
RemoteText(u) == <<"{">> \o u \o <<"}">>
JSONparse(s) ==
  IF Len(s) >= 2 /\ s[1] = "{" /\ s[Len(s)] = "}"
  THEN RemoteDoc(SubSeq(s, 2, Len(s) - 1))
  ELSE JError("SyntaxError", s)

(***************************************************************************)
(* The context model: getContextValue, _getKeywords, _expandTerm and       *)
(* _compactIri.  A function that throws returns the exception, and the     *)
(* caller of a function that threw returns that exception in turn.         *)
(***************************************************************************)
ReferenceError == JError("ReferenceError", <<>>)

\* the statements F after a call that returned v, or the exception v
Bind(v, F(_)) == IF IsErr(v) THEN v ELSE F(v)

\* the property key a value names in o[v] and in (v in o)
PropKey(v) ==
  CASE v[1] = "str" -> v[2]
    [] v[1] = "null" -> <<"null">>
    [] v[1] = "undef" -> <<"undefined">>
    [] v[1] = "num" -> IF v[2] = 0 THEN <<"0">>
                       ELSE IF v[2] = 1 THEN <<"1">> ELSE <<"2">>
    [] v[1] = "bool" -> IF v[2] THEN <<"true">> ELSE <<"false">>
    [] OTHER -> <<>>

\* the keywords of _getKeywords, in the order of its object literal
KeywordList == <<kContainer, kGraph, kId, kLanguage, kList, kSet, kType,
                 kValue>>

\* the alias the loop of lines 1046-1050 leaves for keyword kw from index i
\* on: the last key of ctx whose value is the string kw
RECURSIVE keywordAlias(_, _, _, _)
keywordAlias(ctx, kw, i, alias) ==
  IF i > Len(ctx[2]) THEN alias
  ELSE keywordAlias(ctx, kw, i + 1,
                    IF _isString(ctx[2][i][2]) /\ ctx[2][i][2][2] = kw
                    THEN ctx[2][i][1] ELSE alias)

_getKeywords(ctx) ==
  JObj([i \in 1..Len(KeywordList) |->
         <<KeywordList[i],
           JStr(IF Truthy(ctx) /\ _isObject(ctx)
                THEN keywordAlias(ctx, KeywordList[i], 1, KeywordList[i])
                ELSE KeywordList[i])>>])

\* the loop of lines 993-998 from index i on: the first keyword whose alias
\* is the term, the term itself when there is none
RECURSIVE keywordOfAlias(_, _, _)
keywordOfAlias(keywords, term, i) ==
  IF i > Len(keywords[2]) THEN term
  ELSE IF term = keywords[2][i][2] THEN JStr(keywords[2][i][1])
  ELSE keywordOfAlias(keywords, term, i + 1)

\* lines 435-448: the value of a context entry for a type
contextEntryValue(entry, type) ==
  IF _isObject(entry)
  THEN IF HasKey(entry, type) THEN Get(entry, type) ELSE JNull
  ELSE IF type = kId /\ _isString(entry) THEN entry
  ELSE ReferenceError

RECURSIVE getContextValue(_, _, _, _)
RECURSIVE _expandTerm(_, _)
RECURSIVE expandTermStep(_, _)
RECURSIVE expandTermLoop(_, _, _, _)

\* jsonld.getContextValue(ctx, key, type, expand) with a type given
getContextValue(ctx, key, type, expand) ==
  IF ~HasKey(ctx, PropKey(key)) THEN JNull
  ELSE Bind(contextEntryValue(Get(ctx, PropKey(key)), type),
            LAMBDA rval : IF expand THEN _expandTerm(ctx, rval) ELSE rval)

\* jsonld.getContextValue called with no type: ctx[key] || null
getContextEntry(ctx, key) ==
  IF _isObject(ctx) THEN Or(Get(ctx, PropKey(key)), JNull) ELSE JNull

\* iri + suffix
Concat(iri, suffix) == JStr(PropKey(iri) \o suffix)

\* _expandTerm(ctx, term, true): steps 1 to 3, lines 971-999
expandTermStep(ctx, term) ==
  IF term[1] # "str" THEN TypeError
  ELSE LET idx == IndexOfColon(term[2])
       IN IF idx # 0
          THEN IF HasKey(ctx, SubSeq(term[2], 1, idx - 1))
               THEN Bind(getContextValue(ctx,
                                         JStr(SubSeq(term[2], 1, idx - 1)),
                                         kId, TRUE),
                         LAMBDA iri :
                           Concat(iri,
                                  SubSeq(term[2], idx + 1, Len(term[2]))))
               ELSE term
          ELSE IF HasKey(ctx, term[2])
          THEN getContextValue(ctx, term, kId, FALSE)
          ELSE keywordOfAlias(_getKeywords(ctx), term, 1)

\* lines 1007-1010 returning the value instead of throwing
CyclicalIgnored(rval) == rval

\* lines 1007-1010: the cyclical term definition error
CyclicalContext(rval) == JError("jsonld.CyclicalContext", rval)

\* the loop of lines 1005-1017
expandTermLoop(ctx, rval, recurse, cycles) ==
  IF recurse = rval THEN recurse
  ELSE IF rval \in cycles THEN CyclicalContext(rval)
  ELSE Bind(expandTermStep(ctx, rval),
            LAMBDA next :
              expandTermLoop(ctx, rval, next, cycles \cup {rval}))

\* _expandTerm(ctx, term)
_expandTerm(ctx, term) ==
  Bind(expandTermStep(ctx, term),
       LAMBDA rval : expandTermLoop(ctx, rval, JNull, {}))

\* key.length > 0 && key[0] !== '@'
IsTermKey(key) == Len(key) > 0 /\ key[1] # "@"

\* a first loop that finds no term
compactIriNoTerm(ctx, iri, i) == JUndef

\* the first loop of _compactIri (lines 922-930) from index i on:
\* undefined when no term matches
RECURSIVE compactIriTerm(_, _, _)
compactIriTerm(ctx, iri, i) ==
  IF i > Len(ctx[2]) THEN JUndef
  ELSE IF ~IsTermKey(ctx[2][i][1]) THEN compactIriTerm(ctx, iri, i + 1)
  ELSE Bind(getContextValue(ctx, JStr(ctx[2][i][1]), kId, TRUE),
            LAMBDA v : IF iri = v THEN JStr(ctx[2][i][1])
                       ELSE compactIriTerm(ctx, iri, i + 1))

\* the second loop of _compactIri (lines 939-952) from index i on
RECURSIVE compactIriPrefix(_, _, _)
compactIriPrefix(ctx, iri, i) ==
  IF i > Len(ctx[2]) THEN iri
  ELSE IF ~IsTermKey(ctx[2][i][1]) THEN compactIriPrefix(ctx, iri, i + 1)
  ELSE Bind(getContextValue(ctx, JStr(ctx[2][i][1]), kId, TRUE),
            LAMBDA ctxIri :
              IF ctxIri = JNull THEN compactIriPrefix(ctx, iri, i + 1)
              ELSE IF iri[1] # "str" THEN TypeError
              ELSE IF /\ StartsWith(iri[2], PropKey(ctxIri))
                      /\ Len(iri[2]) > Len(PropKey(ctxIri))
              THEN JStr(ctx[2][i][1] \o <<":">>
                          \o SubSeq(iri[2], Len(PropKey(ctxIri)) + 1,
                                    Len(iri[2])))
              ELSE compactIriPrefix(ctx, iri, i + 1))

_compactIri(ctx, iri) ==
  Bind(compactIriTerm(ctx, iri, 1),
       LAMBDA term :
         IF term # JUndef THEN term
         ELSE IF HasKey(_getKeywords(ctx), PropKey(iri))
         THEN Get(_getKeywords(ctx), PropKey(iri))
         ELSE compactIriPrefix(ctx, iri, 1))

(***************************************************************************)
(* Processor.mergeContexts.                                                *)
(***************************************************************************)
\* the scan of lines 780-786 from index i on: the first key of rval whose
\* resolved @id is newIri is deleted
RECURSIVE mergeScan(_, _, _)
mergeScan(rval, newIri, i) ==
  IF i > Len(rval[2]) THEN rval
  ELSE Bind(getContextValue(rval, JStr(rval[2][i][1]), kId, TRUE),
            LAMBDA v : IF newIri = v THEN Del(rval, rval[2][i][1])
                       ELSE mergeScan(rval, newIri, i + 1))

\* the loop of lines 772-787 over the keys of ctx2 from index j on
RECURSIVE mergeRemove(_, _, _)
mergeRemove(rval, ctx2, j) ==
  IF j > Len(ctx2[2]) THEN rval
  ELSE Bind(getContextValue(ctx2, JStr(ctx2[2][j][1]), kId, TRUE),
            LAMBDA newIri :
              IF newIri = JNull THEN mergeRemove(rval, ctx2, j + 1)
              ELSE Bind(mergeScan(rval, newIri, 1),
                        LAMBDA r : mergeRemove(r, ctx2, j + 1)))

\* the loop of lines 790-792 from index j on
RECURSIVE mergeOverlay(_, _, _)
mergeOverlay(rval, ctx2, j) ==
  IF j > Len(ctx2[2]) THEN rval
  ELSE mergeOverlay(Put(rval, ctx2[2][j][1], ctx2[2][j][2]), ctx2, j + 1)

RECURSIVE mergeContexts(_, _)
RECURSIVE mergeEach(_, _, _)
\* the loop of lines 765-767 from index i on
mergeEach(rval, ctxs, i) ==
  IF i > Len(ctxs) THEN rval
  ELSE Bind(mergeContexts(rval, ctxs[i]),
            LAMBDA r : mergeEach(r, ctxs, i + 1))

\* lines 760-795: the merge onto a context that is no array.  A string
\* ctx2 is iterated by index and getContextValue applies "in" to it.
mergeFlat(ctx1, ctx2) ==
  IF _isArray(ctx2) THEN mergeEach(_clone(ctx1), ctx2[2], 1)
  ELSE IF _isString(ctx2) THEN TypeError
  ELSE IF ~_isObject(ctx2) THEN _clone(ctx1)
  ELSE Bind(mergeRemove(_clone(ctx1), ctx2, 1),
            LAMBDA r : mergeOverlay(r, ctx2, 1))

mergeContexts(ctx1, ctx2) ==
  IF _isArray(ctx1)
  THEN Bind(mergeContexts(EmptyObj, ctx1),
            LAMBDA flat : mergeFlat(flat, ctx2))
  ELSE mergeFlat(ctx1, ctx2)

(***************************************************************************)
(* The subject helpers hasProperty, hasValue and addValue.  addValue       *)
(* returns the subject as the call leaves it.                              *)
(***************************************************************************)
hasProperty(subject, property) ==
  /\ HasKey(subject, property)
  /\ (~_isArray(Get(subject, property)) \/ Len(Get(subject, property)[2]) > 0)

\* a === b: objects and arrays are compared by reference, and a value being
\* added is never the object already stored
StrictEquals(a, b) == a = b /\ a[1] \notin {"obj", "arr"}

\* the free function indexOf of line 320 is not defined anywhere
hasValue(subject, property, value) ==
  IF hasProperty(subject, property)
  THEN LET val == Get(subject, property)
       IN IF _isArray(val) THEN ReferenceError
          ELSE IF ~_isArray(value) THEN JBool(StrictEquals(val, value))
          ELSE JBool(FALSE)
  ELSE JBool(FALSE)

addValue(subject, property, value, propertyIsArray) ==
  IF HasKey(subject, property)
  THEN LET found == hasValue(subject, property, value)
       IN IF IsErr(found) THEN found
          ELSE LET hasValueVar == ~found[2]
                   cur == Get(subject, property)
                   arr == IF ~_isArray(cur) /\ (~hasValueVar \/ propertyIsArray)
                          THEN JArr(<<cur>>) ELSE cur
               IN IF ~hasValueVar
                  THEN Put(subject, property, JArr(Append(arr[2], value)))
                  ELSE Put(subject, property, arr)
  ELSE Put(subject, property,
           IF propertyIsArray THEN JArr(<<value>>) ELSE value)

\* subject[property] || []
getValues(subject, property) ==
  LET rval == IF HasKey(subject, property) /\ Truthy(Get(subject, property))
              THEN Get(subject, property) ELSE JArr(<<>>)
  IN IF ~_isArray(rval) THEN <<rval>> ELSE rval[2]

removeProperty(subject, property) == Del(subject, property)

\* values.filter(function(e) {return e !== value;})
RECURSIVE filterOut(_, _)
filterOut(values, value) ==
  IF values = <<>> THEN <<>>
  ELSE IF StrictEquals(Head(values), value)
       THEN filterOut(Tail(values), value)
       ELSE <<Head(values)>> \o filterOut(Tail(values), value)

removeValue(subject, property, value, propertyIsArray) ==
  LET values == filterOut(getValues(subject, property), value)
  IN IF Len(values) = 0 THEN removeProperty(subject, property)
     ELSE IF Len(values) = 1 /\ ~propertyIsArray
          THEN Put(subject, property, values[1])
          ELSE Put(subject, property, JArr(values))

(***************************************************************************)
(* Value classification.                                                   *)
(***************************************************************************)
_isFrameKeyword(key) ==
  key \in {Kw("embed"), Kw("explicit"), Kw("default"), Kw("omitDefault")}

_isSubject(value) ==
  /\ _isObject(value)
  /\ ~(HasKey(value, kValue) \/ HasKey(value, kSet) \/ HasKey(value, kList))
  /\ (Len(value[2]) > 1 \/ ~HasKey(value, kId))

_isSetValue(value) == _isObject(value) /\ HasKey(value, kSet)

_isListValue(value) == _isObject(value) /\ HasKey(value, kList)

\* /(\w+):\/\/(.+)/ matches somewhere in the key
_isAbsoluteIri(key) ==
  \E i \in 1..Len(key) :
    /\ key[i] \in Words
    /\ i + 4 <= Len(key)
    /\ key[i + 1] = ":" /\ key[i + 2] = "/" /\ key[i + 3] = "/"

\* value[key] of any value: only objects have the keys of the model
GetProp(value, key) == IF _isObject(value) THEN Get(value, key) ELSE JUndef

\* '' + value of a primitive
ToStr(value) == JStr(PropKey(value))

SyntaxError == JError("jsonld.SyntaxError", <<>>)

(***************************************************************************)
(* Processor.expand and Processor.expandValue.  Numbers are integers, so   *)
(* the double format of lines 825-829 never applies.                       *)
(***************************************************************************)
expandValue(ctx, property, value) ==
  Bind(_expandTerm(ctx, property),
       LAMBDA prop :
         IF prop = JStr(kId) \/ prop = JStr(kType)
         THEN _expandTerm(ctx, value)
         ELSE Bind(_compactIri(ctx, prop),
                LAMBDA cprop :
                  Bind(getContextValue(ctx, cprop, kType, TRUE),
                    LAMBDA type :
                      IF type = JStr(kId)
                      THEN Bind(_expandTerm(ctx, value),
                                LAMBDA id : JObj(<<<<kId, id>>>>))
                      ELSE IF type # JNull
                      THEN JObj(<<<<kType, type>>, <<kValue, ToStr(value)>>>>)
                      ELSE value)))

\* lines 660-665 with the plain array where the input used @list
listResultByContainer(isList, container, rval) ==
  IF container = JStr(kList) THEN JObj(<<<<kList, rval>>>>) ELSE rval

\* lines 660-665: use @list if previously used or if the context says so
listResult(isList, container, rval) ==
  IF Truthy(isList) \/ container = JStr(kList)
  THEN JObj(<<<<kList, rval>>>>) ELSE rval

RECURSIVE expand(_, _, _)
RECURSIVE expandElems(_, _, _, _, _)
RECURSIVE expandSubject(_, _, _, _)

\* the loop of lines 649-657 from index i on
expandElems(ctx, property, es, i, rval) ==
  IF i > Len(es) THEN JArr(rval)
  ELSE IF _isArray(es[i]) THEN SyntaxError
  ELSE Bind(expand(ctx, property, es[i]),
            LAMBDA val :
              expandElems(ctx, property, es, i + 1, Append(rval, val)))

\* the loop of lines 676-697 from index i on
expandSubject(ctx, value, i, rval) ==
  IF i > Len(value[2]) THEN rval
  ELSE IF _isFrameKeyword(value[2][i][1])
  THEN Bind(addValue(rval, value[2][i][1], value[2][i][2], TRUE),
            LAMBDA r : expandSubject(ctx, value, i + 1, r))
  ELSE IF \/ value[2][i][1] = kContext
          \/ /\ ~Truthy(getContextEntry(JStr(value[2][i][1]), JUndef))
             /\ ~_isAbsoluteIri(value[2][i][1])
  THEN expandSubject(ctx, value, i + 1, rval)
  ELSE Bind(_expandTerm(ctx, JStr(value[2][i][1])),
         LAMBDA prop :
           Bind(expand(ctx, JStr(value[2][i][1]), value[2][i][2]),
             LAMBDA val :
               IF val = JNull THEN expandSubject(ctx, value, i + 1, rval)
               ELSE Bind(addValue(rval, PropKey(prop), val, TRUE),
                         LAMBDA r : expandSubject(ctx, value, i + 1, r))))

\* lines 630-666, list being the array the elements are taken from
expandList(ctx, property, isList, list) ==
  IF Truthy(isList) /\ list = JNull THEN JNull
  ELSE IF Truthy(isList) /\ ~_isArray(list) THEN SyntaxError
  ELSE Bind(expandElems(ctx, property, list[2], 1, <<>>),
         LAMBDA rval :
           Bind(getContextValue(ctx, property, kContainer, TRUE),
                LAMBDA container : listResult(isList, container, rval)))

\* var isList = value (line 629): every truthy value takes the list branch
expand(ctx, property, value) ==
  IF value = JNull THEN JNull
  ELSE IF property = JNull /\ _isString(value) THEN _expandTerm(ctx, value)
  ELSE IF _isArray(value) \/ Truthy(value)
  THEN expandList(ctx, property, value,
                  IF Truthy(value) THEN GetProp(value, kList) ELSE value)
  ELSE IF _isSubject(value)
  THEN IF HasKey(value, kContext) THEN TypeError
       ELSE expandSubject(ctx, value, 1, EmptyObj)
  ELSE IF _isSetValue(value) THEN expand(ctx, property, Get(value, kSet))
  ELSE expandValue(ctx, property, value)

(***************************************************************************)
(* Processor.compact and Processor.compactValue.                           *)
(***************************************************************************)
CompactError == JError("jsonld.CompactError", <<>>)

\* the loop of lines 883-890 from index i on
RECURSIVE compactKeywords(_, _, _, _)
compactKeywords(ctx, value, i, rval) ==
  IF i > Len(value[2]) THEN rval
  ELSE Bind(IF value[2][i][1] = kId \/ value[2][i][1] = kType
            THEN _compactIri(ctx, value[2][i][2])
            ELSE value[2][i][2],
         LAMBDA val :
           compactKeywords(ctx, value, i + 1,
             Put(rval, PropKey(Get(_getKeywords(ctx), value[2][i][1])),
                 val)))

\* lines 880-906, type being the type the context gives the property
compactTyped(ctx, value, type) ==
  IF type = JNull THEN compactKeywords(ctx, value, 1, EmptyObj)
  ELSE IF HasKey(value, kLanguage) THEN CompactError
  ELSE IF type = JStr(kId) THEN _compactIri(ctx, Get(value, kValue))
  ELSE Get(value, kValue)

compactValue(ctx, property, value) ==
  IF ~_isObject(value) THEN value
  ELSE Bind(_expandTerm(ctx, property),
         LAMBDA prop :
           IF prop = JStr(kId) \/ prop = JStr(kType)
           THEN compactTyped(ctx, value, JStr(kId))
           ELSE Bind(_compactIri(ctx, prop),
                  LAMBDA cprop :
                    Bind(getContextValue(ctx, cprop, kType, TRUE),
                         LAMBDA type : compactTyped(ctx, value, type))))

RECURSIVE compact(_, _, _)
RECURSIVE compactElems(_, _, _, _, _)
RECURSIVE compactSubject(_, _, _, _)

\* the loop of lines 545-553 from index i on
compactElems(ctx, property, es, i, rval) ==
  IF i > Len(es) THEN JArr(rval)
  ELSE IF _isArray(es[i]) THEN SyntaxError
  ELSE Bind(compact(ctx, property, es[i]),
            LAMBDA val :
              compactElems(ctx, property, es, i + 1, Append(rval, val)))

\* the loop of lines 575-594 from index i on
compactSubject(ctx, value, i, rval) ==
  IF i > Len(value[2]) THEN rval
  ELSE IF \/ value[2][i][1] = kContext
          \/ /\ ~Truthy(getContextEntry(JStr(value[2][i][1]), JUndef))
             /\ ~_isAbsoluteIri(value[2][i][1])
  THEN compactSubject(ctx, value, i + 1, rval)
  ELSE Bind(_compactIri(ctx, JStr(value[2][i][1])),
         LAMBDA p :
           Bind(compact(ctx, JStr(value[2][i][1]), value[2][i][2]),
             LAMBDA val :
               Bind(getContextValue(ctx, p, kContainer, TRUE),
                 LAMBDA container :
                   Bind(addValue(rval, PropKey(p), val,
                                 container \in {JStr(kSet), JStr(kList)}),
                        LAMBDA r : compactSubject(ctx, value, i + 1, r)))))

\* lines 526-562, list being the array the elements are taken from
compactList(ctx, property, isList, list) ==
  IF isList /\ list = JNull THEN JNull
  ELSE IF isList /\ ~_isArray(list) THEN SyntaxError
  ELSE Bind(compactElems(ctx, property, list[2], 1, <<>>),
         LAMBDA rval :
           Bind(getContextValue(ctx, property, kContainer, TRUE),
                LAMBDA container :
                  IF isList /\ container # JStr(kList)
                  THEN JObj(<<<<kList, rval>>>>)
                  ELSE rval))

compact(ctx, property, value) ==
  IF value = JNull THEN JNull
  ELSE IF _isArray(value) \/ _isListValue(value)
  THEN compactList(ctx, property, _isListValue(value),
                   IF _isListValue(value) THEN Get(value, kList) ELSE value)
  ELSE IF _isObject(value) /\ HasKey(value, kGraph)
  THEN Bind(compact(ctx, property, Get(value, kGraph)),
            LAMBDA inner :
              JObj(<<<<PropKey(Get(_getKeywords(ctx), kGraph)), inner>>>>))
  ELSE IF _isSubject(value) THEN compactSubject(ctx, value, 1, EmptyObj)
  ELSE IF _isSetValue(value) THEN compact(ctx, property, Get(value, kSet))
  ELSE compactValue(ctx, property, value)

(***************************************************************************)
(* The rewrites of the public operations: what jsonld.expand,              *)
(* jsonld.compact and jsonld.mergeContexts compute from an input whose     *)
(* contexts are inline.                                                    *)
(***************************************************************************)
\* jsonld.expand: the clone of line 109 and the expansion of line 115
expandRewrite(doc) == expand(EmptyObj, JNull, _clone(doc))

\* jsonld.mergeContexts: the clones of lines 263-264 and the merge of
\* lines 277-278
mergeRewrite(c1, c2) ==
  mergeContexts(_clone(Or(c1, EmptyObj)), _clone(Or(c2, EmptyObj)))

\* cleanup without optimize (lines 56-60): compacted['@context'] = ctx
attachContext(result, ctx) ==
  IF ~_isObject(ctx) \/ Len(ctx[2]) > 0
  THEN IF result \in {JNull, JUndef} THEN TypeError
       ELSE IF _isObject(result) THEN Put(result, kContext, ctx)
       ELSE result
  ELSE result

\* lines 90-96: an exception of the compaction calls cleanup without a
\* compacted value
compactCleanup(result, ctx) ==
  IF IsErr(result) THEN attachContext(JUndef, ctx)
  ELSE attachContext(result, ctx)

\* jsonld.compact: the value compaction leaves in compacted.  The null case
\* calls callback before it is assigned (line 26); the input itself is
\* compacted, not its expansion (line 91).
compactRewrite(doc, ctx) ==
  IF doc = JNull THEN TypeError
  ELSE IF IsErr(expandRewrite(doc)) THEN CompactError
  ELSE IF IsErr(mergeRewrite(EmptyObj, ctx)) THEN CompactError
  ELSE compactCleanup(compact(mergeRewrite(EmptyObj, ctx), JNull, doc), ctx)

(***************************************************************************)
(* The inputs of the rewrites.                                             *)
(***************************************************************************)
MaxListLen == 2
MaxTerms == 2

\* the sequences over S of length at most n
SeqsUpTo(S, n) == UNION {[1..k -> S] : k \in 0..n}

I1 == Http(<<"a">>)
I2 == Http(<<"b">>)
kK == <<"k">>

Scalars == {JNull, JStr(kK), JStr(I1), JStr(<<>>), JNum(0), JNum(1),
            JBool(TRUE)}

ListOf(es) == JObj(<<<<kList, JArr(es)>>>>)

ListElems == {JNull, JStr(kK), JStr(I1), JNum(0), JObj(<<<<kList, JNull>>>>),
              ListOf(<<JStr(kK)>>), JArr(<<JStr(kK)>>)}

Lists ==
  {ListOf(es) : es \in SeqsUpTo(ListElems, MaxListLen)}
    \cup {JObj(<<<<kList, JNull>>>>),
          JObj(<<<<kList, JStr(kK)>>>>),
          JObj(<<<<kK, JStr(<<"b">>)>>, <<kList, JArr(<<JStr(kK)>>)>>>>)}

Subjects ==
  {JObj(<<<<key, s>>>>) : key \in {kK, I1}, s \in Scalars}
    \cup {JObj(<<<<kContext, JObj(<<<<kK, JStr(I1)>>>>)>>,
                 <<kK, JStr(<<"b">>)>>>>),
          JObj(<<<<kId, JStr(I2)>>, <<I1, JStr(<<"b">>)>>>>),
          JObj(<<<<kId, JStr(I2)>>,
                 <<I1, JObj(<<<<kValue, JStr(<<"b">>)>>>>)>>>>),
          JObj(<<<<I1, JArr(<<JObj(<<<<kId, JStr(I2)>>>>)>>)>>>>),
          JObj(<<<<kSet, JArr(<<JStr(kK)>>)>>>>),
          JObj(<<<<kId, JStr(I2)>>>>)}

Arrays == {JArr(es) : es \in SeqsUpTo({JStr(kK), JNull}, 1)}

CoreDocuments == Scalars \cup Lists \cup Subjects \cup Arrays

\* inline contexts for compaction: a plain term, the typed terms and the
\* list containers
CompactContexts ==
  {EmptyObj,
   JObj(<<<<kK, JStr(I1)>>>>),
   JObj(<<<<kK, JObj(<<<<kId, JStr(I1)>>, <<kType, JStr(kId)>>>>)>>>>),
   JObj(<<<<kK, JObj(<<<<kId, JStr(I1)>>, <<kType, JStr(I2)>>>>)>>>>),
   JObj(<<<<kK, JObj(<<<<kId, JStr(I1)>>,
                       <<kContainer, JStr(kList)>>>>)>>>>),
   JObj(<<<<<<"null">>, JObj(<<<<kId, JStr(I2)>>,
                              <<kContainer, JStr(kList)>>>>)>>>>),
   JObj(<<<<kK, JObj(<<<<kContainer, JStr(kList)>>>>)>>>>)}

\* the context that makes id an alias of @id
AliasContext == JObj(<<<<(<<"id">>), JStr(kId)>>>>)

ProcessorContexts == CompactContexts \cup {AliasContext}

\* an array that is a direct element of an array
NestedArray == JArr(<<JArr(<<JNum(1)>>)>>)

\* values with a nested array: at the top level, inside a @list, and as
\* the value of a property given as an absolute IRI or as a term
NestedArrayValues ==
  {NestedArray,
   JArr(<<JStr(kK), JArr(<<JNum(1)>>)>>),
   JObj(<<<<kList, NestedArray>>>>),
   JObj(<<<<I1, NestedArray>>>>),
   JObj(<<<<kK, NestedArray>>>>)}

\* subjects that carry an identifier, under the alias id and under @id
AliasValues ==
  {JObj(<<<<(<<"id">>), JStr(I2)>>, <<I1, JStr(<<"b">>)>>>>),
   JObj(<<<<kId, JStr(I2)>>, <<I1, JStr(<<"b">>)>>>>),
   JObj(<<<<kId, JStr(I2)>>, <<I1, JArr(<<JStr(<<"b">>)>>)>>>>)}

ProcessorValues ==
  CoreDocuments \cup NestedArrayValues \cup AliasValues \cup {JBool(FALSE)}

\* the property a value is expanded or compacted under
Properties == {JNull, JStr(I1), JStr(kK)}

\* the number of addValue calls made on one subject
MaxAdds == 3

\* the values added to and removed from a property
PropertyValues == {JStr(<<"a">>), JStr(<<"b">>), JNum(0)}

\* the number of values a property holds before removeValue
MaxValues == 2

\* subjects before removeValue: without the property, with one value
\* stored as a scalar, and with an array of values
RemoveSubjects ==
  {EmptyObj}
    \cup {JObj(<<<<kK, v>>>>) : v \in PropertyValues}
    \cup {JObj(<<<<kK, JArr(vs)>>>>) : vs \in SeqsUpTo(PropertyValues, MaxValues)}

\* the number of entries of a context an IRI is compacted with
MaxIriTerms == 2

\* an IRI that has I1 as a strict prefix
I1x == I1 \o <<"x">>

\* entries of such a context: terms, a key that starts with @, and as
\* values absolute IRIs, a keyword, a term, and option maps with and
\* without @id
IriKeys == {kK, <<"pre">>, <<"id">>, kLanguage}
IriValues == {JStr(I1), JStr(I1x), JStr(kId), JStr(kK),
              JObj(<<<<kId, JStr(I1)>>>>),
              JObj(<<<<kContainer, JStr(kList)>>>>)}

\* the contexts, in both orders of their keys
IriContexts ==
  {JObj(es) : es \in {e \in SeqsUpTo(IriKeys \X IriValues, MaxIriTerms) :
                        \A i, j \in 1..Len(e) : e[i][1] = e[j][1] => i = j}}

IrisToCompact == {JStr(I1), JStr(I1x), JStr(I2), JStr(kId), JStr(kType)}

MaxChain == 3

\* the terms of the contexts of term expansion
ChainTerms == SubSeq(<< <<"a">>, <<"b">>, <<"q">>, <<"m">> >>, 1, MaxChain)

\* what a term is defined as: another term, an absolute IRI, prefix:suffix,
\* an option map, or nothing
ChainEntries == {JUndef, JStr(<<"a">>), JStr(<<"b">>), JStr(<<"q">>),
                 JStr(I1), JStr(<<"pre", ":", "x">>),
                 JObj(<<<<kId, JStr(<<"b">>)>>>>)}

\* the prefix pre is an absolute IRI or is not defined
PrefixEntries == {<<>>, << <<(<<"pre">>), JStr(I2)>> >>}

TermContexts ==
  {JObj(SelectSeq([i \in 1..Len(ChainTerms) |-> <<ChainTerms[i], f[i]>>],
                  LAMBDA pair : pair[2] # JUndef) \o pre) :
     f \in [1..Len(ChainTerms) -> ChainEntries], pre \in PrefixEntries}

TermsToExpand == {JStr(<<"a">>), JStr(<<"b">>), JStr(<<"q">>), JStr(I1),
                  JStr(<<"pre", ":", "x">>), JStr(kId), JStr(kK)}

MergeTerms == {<<"a">>, <<"b">>, <<"q">>}

MergeEntries ==
  {JStr(I1), JStr(I2), JStr(<<"a">>),
   JObj(<<<<kId, JStr(I1)>>, <<kType, JStr(kId)>>>>),
   JObj(<<<<kContainer, JStr(kList)>>>>)}

\* map contexts of at most MaxTerms terms, their keys in the order the
\* clones of lines 263-264 give them
MergeContextsIn ==
  {JObj(ps) : ps \in
     {s \in SeqsUpTo(MergeTerms \X MergeEntries, MaxTerms) :
        \A i, j \in 1..Len(s) : i < j => StrLess(s[i][1], s[j][1])}}

(***************************************************************************)
(* The inputs of the URL resolution pass.                                  *)
(***************************************************************************)
U1 == Http(<<"a">>)
U2 == Http(<<"b">>)
UBad == <<"ftp", ":", "/", "/", "x">>
ContextUrls == {U1, U2, UBad}

InlineContext == JObj(<< <<(<<"q">>), JStr(Http(<<"x", "/", "q">>))>> >>)

\* an @context value: a URL, an inline map, or an array of these
ContextValues ==
  {JStr(u) : u \in ContextUrls} \cup {InlineContext}
    \cup {JArr(es) : es \in SeqsUpTo({JStr(u) : u \in ContextUrls}
                                        \cup {InlineContext}, MaxCtxLen)}

kP == <<"pre">>
WithContext(c) == JObj(<< <<kContext, c>> >>)

\* a document: null, a subject with or without @context, a subject nested
\* under a property of another one, or a top-level array of subjects
Documents ==
  {JNull, EmptyObj}
    \cup {WithContext(c) : c \in ContextValues}
    \cup {JObj(<< <<kP, WithContext(JStr(u))>> >>) : u \in ContextUrls}
    \cup {JObj(<< <<kContext, JStr(U1)>>, <<kP, WithContext(JStr(u))>> >>) :
            u \in ContextUrls}
    \cup {JArr(<<WithContext(JStr(u)), WithContext(JStr(v))>>) :
            u \in ContextUrls, v \in ContextUrls}

\* what a resolver hands to its callback for url u: <<err, ctx>>
ResolverResults(u) ==
  { <<JNull, RemoteDoc(u)>>,
    <<JNull, EmptyObj>>,
    <<JNull, JStr(RemoteText(u))>>,
    <<JNull, JStr(<<"x">>)>>,
    <<JNull, JArr(<<>>)>>,
    <<JError("resolver", u), JUndef>> }

(***************************************************************************)
(* The state of one run.                                                   *)
(*   op        the function called: a public operation, or _resolveUrls    *)
(*             itself with the three arguments its signature declares      *)
(*   orig      the caller's first argument                                 *)
(*   input     _resolveUrls' input, rewritten in place by the replacement  *)
(*   urls      _resolveUrls' urls map                                      *)
(*   count, errors   _resolveUrls' counters                                *)
(*   url       the loop variable of line 1368, as an index into the keys   *)
(*             of urls (0 before the loop); the resolver callbacks close   *)
(*             over it                                                     *)
(*   pc        "start", "loop" (inside the loop of line 1368) or           *)
(*             "returned" (the call has returned to the event loop)        *)
(*   pending   the fetches issued and not settled                          *)
(*   fetched   the URLs the resolver parameter was invoked for, in order   *)
(*   returned  what the resolver handed back, per URL                      *)
(*   reports   the calls of _resolveUrls' callback: <<err, input>>         *)
(*   cbCalls   the calls of the caller's callback: <<err, result>>         *)
(*   thrown    the exception that left the called function, or null        *)
(*   replaced  the replacement traversal has run                           *)
(*   core      how often the operation went on to its rewrite core         *)
(***************************************************************************)
VARIABLES op, orig, input, urls, count, errors, url, pc, pending, fetched,
          returned, reports, cbCalls, thrown, replaced, core

passVars == <<op, orig, input, urls, count, errors, url, pc, pending,
              fetched, returned, reports, cbCalls, thrown, replaced, core>>

\* the documents handed to the public operations
PublicDocuments == CoreDocuments \cup Documents

\* the contexts handed to jsonld.mergeContexts
PublicContexts == ProcessorContexts \cup ContextValues

VARIABLES task, step, coreInput, ctxOne, ctxTwo, expanded, compacted, reexpanded,
          merged, property, subject, added, outcome

coreVars == <<task, step, coreInput, ctxOne, ctxTwo, expanded, compacted,
              reexpanded, merged, property, subject, added, outcome>>

PublicOps == {"expand", "compact", "mergeContexts"}
Ops == PublicOps \cup {"resolveUrls"}

\* The arguments of the call of _resolveUrls(input, resolver, callback).
\* The public operations pass two (lines 110 and 267): their continuation
\* lands in the resolver parameter and callback is undefined.
resolverArg(o) == IF o = "resolveUrls" THEN "resolver" ELSE "continuation"
callbackArg(o) == IF o = "resolveUrls" THEN "callback" ELSE "undefined"

\* the input the operation hands to _resolveUrls (lines 109 and 263-267)
passInput(o, arg) ==
  IF o = "resolveUrls" THEN arg
  ELSE IF o = "mergeContexts"
  THEN JObj(<< <<kContext, _clone(Or(arg, EmptyObj))>> >>)
  ELSE _clone(arg)

\* The continuation a public operation passes to _resolveUrls, called with
\* (err, input): the calls of the caller's callback it makes and whether
\* it goes on to the next stage (lines 74-79, 110-116, 267-270).
continuation(o, err) ==
  IF Truthy(err)
  THEN [calls |-> << <<(IF o = "compact"
                        THEN JError("jsonld.CompactError", err)
                        ELSE err), JUndef>> >>,
        goesOn |-> FALSE]
  ELSE [calls |-> <<>>, goesOn |-> TRUE]

\* count === 0 of lines 1363 and 1406
finishCondLate(c) == c <= 1
finishCond(c) == c = 0

\* finished() (lines 1350-1360) called with this callback argument
finished(cbArg, errs, inp, reps) ==
  IF cbArg = "undefined"
  THEN [reports |-> reps, thrown |-> TypeError]
  ELSE [reports |-> Append(reps,
                      IF Len(errs) > 0
                      THEN <<JError("jsonld.ContextUrlError", errs), JUndef>>
                      ELSE <<JNull, inp>>),
        thrown |-> JNull]

\* The resolver callback of lines 1379-1413, run with the closure's url
\* variable holding closureUrl and the resolver's result res = <<err, ctx>>.
resolved(closureUrl, res) ==
  LET count1 == count - 1
      isStr == (~Truthy(res[1])) /\ _isString(res[2])
      parsed == IF isStr THEN JSONparse(res[2][2]) ELSE res[2]
      err1 == IF isStr /\ IsErr(parsed) THEN parsed ELSE res[1]
      ctx1 == IF isStr /\ ~IsErr(parsed) THEN parsed ELSE res[2]
      err2 == IF (~Truthy(err1)) /\ ~_isObject(ctx1)
              THEN JError("jsonld.InvalidUrl", closureUrl)
              ELSE err1
      errors1 == IF Truthy(err2) THEN Append(errors, err2) ELSE errors
      urls1 == IF Truthy(err2) THEN urls
               ELSE Put(urls, closureUrl, Or(Get(ctx1, kContext), EmptyObj))
      done == finishCond(count1)
      doReplace == done /\ Len(errors1) = 0
      input1 == IF doReplace THEN findUrls(input, TRUE, urls1)[1] ELSE input
      fin == finished(callbackArg(op), errors1, input1, reports)
  IN [count |-> count1, errors |-> errors1, urls |-> urls1,
      input |-> input1, replaced |-> (replaced \/ doReplace),
      reports |-> IF done THEN fin.reports ELSE reports,
      thrown |-> IF done THEN fin.thrown ELSE thrown]

UrlKeys == KeysOf(urls)

\* The loop of lines 1368-1414 of a public operation's run: for every URL
\* the regex accepts, the operation's continuation is called as the
\* resolver with err = url; these are the calls of the caller's callback.
RECURSIVE continuationCalls(_, _, _)
continuationCalls(o, keys, i) ==
  IF i > Len(keys) THEN <<>>
  ELSE (IF UrlRegexTest(keys[i])
        THEN continuation(o, JStr(keys[i])).calls ELSE <<>>)
         \o continuationCalls(o, keys, i + 1)

\* A whole call of a public operation with a caller's callback, up to its
\* return: <<"calls", the calls of the callback, the exception that left
\* the call>>.  jsonld.compact's null case calls callback before it is
\* assigned (line 26); with no URL in the input finished() calls the
\* undefined callback parameter (line 1364); an optimize argument only
\* moves the position of the callback (lines 30-36).
publicCall(o, arg) ==
  IF o = "compact" /\ arg = JNull THEN <<"calls", <<>>, TypeError>>
  ELSE LET found == findUrls(passInput(o, arg), FALSE, EmptyObj)
           fin == finished(callbackArg(o), <<>>, found[1], <<>>)
       IN IF Len(found[2][2]) = 0 THEN <<"calls", fin.reports, fin.thrown>>
          ELSE <<"calls", continuationCalls(o, KeysOf(found[2]), 1), JNull>>

PassInit ==
  /\ op \in Ops
  /\ orig \in Documents
  /\ input = JUndef
  /\ urls = EmptyObj
  /\ count = 0
  /\ errors = <<>>
  /\ url = 0
  /\ pc = "start"
  /\ pending = {}
  /\ fetched = <<>>
  /\ returned = <<>>
  /\ reports = <<>>
  /\ cbCalls = <<>>
  /\ thrown = JNull
  /\ replaced = FALSE
  /\ core = 0

\* The call up to the loop of line 1368: jsonld.compact's null case
\* (lines 25-27, callback is not assigned yet), the clone, the discovery
\* traversal, and finished() when there is nothing to resolve.
Call ==
  /\ pc = "start"
  /\ IF op = "compact" /\ orig = JNull
     THEN /\ thrown' = TypeError
          /\ pc' = "returned"
          /\ UNCHANGED <<input, urls, count, reports>>
     ELSE LET found == findUrls(passInput(op, orig), FALSE, EmptyObj)
              n == Len(found[2][2])
              fin == finished(callbackArg(op), <<>>, found[1], reports)
          IN /\ input' = found[1]
             /\ urls' = found[2]
             /\ count' = n
             /\ pc' = IF n = 0 THEN "returned" ELSE "loop"
             /\ reports' = IF n = 0 THEN fin.reports ELSE reports
             /\ thrown' = IF n = 0 THEN fin.thrown ELSE thrown
  /\ UNCHANGED coreVars
  /\ UNCHANGED <<op, orig, errors, url, pending, fetched, returned, cbCalls,
                 replaced, core>>

\* what every iteration of the loop does to the loop variable
Advance ==
  /\ url' = url + 1
  /\ pc' = IF url + 1 = Len(UrlKeys) THEN "returned" ELSE "loop"

\* an iteration for a URL the regex rejects (lines 1371-1376)
RejectUrl ==
  /\ pc = "loop"
  /\ ~UrlRegexTest(UrlKeys[url + 1])
  /\ count' = count - 1
  /\ errors' = Append(errors, JError("jsonld.InvalidUrl", UrlKeys[url + 1]))
  /\ Advance
  /\ UNCHANGED coreVars
  /\ UNCHANGED <<op, orig, input, urls, pending, fetched, returned, reports,
                 cbCalls, thrown, replaced, core>>

\* an iteration that calls the resolver, which settles later
IssueAsync ==
  /\ pc = "loop"
  /\ resolverArg(op) = "resolver"
  /\ UrlRegexTest(UrlKeys[url + 1])
  /\ fetched' = Append(fetched, UrlKeys[url + 1])
  /\ pending' = pending \cup {UrlKeys[url + 1]}
  /\ Advance
  /\ UNCHANGED coreVars
  /\ UNCHANGED <<op, orig, input, urls, count, errors, returned, reports,
                 cbCalls, thrown, replaced, core>>

\* an iteration that calls the resolver, which calls back before it returns
IssueSync ==
  /\ pc = "loop"
  /\ resolverArg(op) = "resolver"
  /\ UrlRegexTest(UrlKeys[url + 1])
  /\ \E res \in ResolverResults(UrlKeys[url + 1]) :
       LET u == UrlKeys[url + 1]
           r == resolved(u, res)
       IN /\ fetched' = Append(fetched, u)
          /\ returned' = Append(returned, <<u, res>>)
          /\ count' = r.count
          /\ errors' = r.errors
          /\ urls' = r.urls
          /\ input' = r.input
          /\ replaced' = r.replaced
          /\ reports' = r.reports
          /\ thrown' = r.thrown
  /\ Advance
  /\ UNCHANGED coreVars
  /\ UNCHANGED <<op, orig, pending, cbCalls, core>>

\* an iteration of a public operation's run: resolver(url, function) is
\* the operation's continuation called with err = url
CallContinuation ==
  /\ pc = "loop"
  /\ resolverArg(op) = "continuation"
  /\ UrlRegexTest(UrlKeys[url + 1])
  /\ LET k == continuation(op, JStr(UrlKeys[url + 1]))
     IN /\ cbCalls' = cbCalls \o k.calls
        /\ core' = IF k.goesOn THEN core + 1 ELSE core
  /\ fetched' = Append(fetched, UrlKeys[url + 1])
  /\ Advance
  /\ UNCHANGED coreVars
  /\ UNCHANGED <<op, orig, input, urls, count, errors, pending, returned,
                 reports, thrown, replaced>>

\* a pending fetch settles after the call has returned: the callback runs
\* with the loop variable as the loop left it
Settle(u) ==
  /\ pc = "returned"
  /\ u \in pending
  /\ \E res \in ResolverResults(u) :
       LET r == resolved(UrlKeys[url], res)
       IN /\ returned' = Append(returned, <<u, res>>)
          /\ count' = r.count
          /\ errors' = r.errors
          /\ urls' = r.urls
          /\ input' = r.input
          /\ replaced' = r.replaced
          /\ reports' = r.reports
          /\ thrown' = r.thrown
  /\ pending' = pending \ {u}
  /\ UNCHANGED coreVars
  /\ UNCHANGED <<op, orig, url, pc, fetched, cbCalls, core>>

PassNext ==
  \/ Call
  \/ RejectUrl
  \/ IssueAsync
  \/ IssueSync
  \/ CallContinuation
  \/ \E u \in ContextUrls : Settle(u)

(***************************************************************************)
(* The rewrites as a state machine: a document is expanded and expanded    *)
(* again, or expanded, compacted with a context and expanded again, or two *)
(* contexts are merged.                                                    *)
(***************************************************************************)
CoreInit ==
  /\ step = 0
  /\ expanded = JUndef
  /\ compacted = JUndef
  /\ reexpanded = JUndef
  /\ merged = JUndef
  /\ added = <<>>
  /\ outcome = JUndef
  /\ \/ /\ task = "merge"
        /\ coreInput = JUndef
        /\ ctxOne \in MergeContextsIn
        /\ ctxTwo \in MergeContextsIn
        /\ property = JNull
        /\ subject = JUndef
     \/ /\ task = "expandTwice"
        /\ coreInput \in CoreDocuments
        /\ ctxOne = JUndef
        /\ ctxTwo = JUndef
        /\ property = JNull
        /\ subject = JUndef
     \/ /\ task = "roundTrip"
        /\ coreInput \in CoreDocuments
        /\ ctxOne = JUndef
        /\ ctxTwo \in CompactContexts
        /\ property = JNull
        /\ subject = JUndef
     \/ /\ task = "processorExpand"
        /\ coreInput \in ProcessorValues
        /\ ctxOne \in ProcessorContexts
        /\ ctxTwo = JUndef
        /\ property \in Properties
        /\ subject = JUndef
     \/ /\ task = "processorCompact"
        /\ coreInput \in ProcessorValues
        /\ ctxOne = JUndef
        /\ ctxTwo \in ProcessorContexts
        /\ property \in Properties
        /\ subject = JUndef
     \/ /\ task = "addValue"
        /\ coreInput = JUndef
        /\ ctxOne = JUndef
        /\ ctxTwo = JUndef
        /\ property = JStr(kK)
        /\ subject = EmptyObj
     \/ /\ task = "removeValue"
        /\ coreInput \in RemoveSubjects
        /\ ctxOne = JUndef
        /\ ctxTwo = JUndef
        /\ property = JStr(kK)
        /\ subject = coreInput
     \/ /\ task = "jsonld.compact"
        /\ coreInput \in PublicDocuments
        /\ ctxOne = JUndef
        /\ ctxTwo \in CompactContexts
        /\ property = JNull
        /\ subject = JUndef
     \/ /\ task = "jsonld.expand"
        /\ coreInput \in PublicDocuments
        /\ ctxOne = JUndef
        /\ ctxTwo = JUndef
        /\ property = JNull
        /\ subject = JUndef
     \/ /\ task = "jsonld.mergeContexts"
        /\ coreInput = JUndef
        /\ ctxOne \in PublicContexts
        /\ ctxTwo \in PublicContexts
        /\ property = JNull
        /\ subject = JUndef
     \/ /\ task = "compactIri"
        /\ coreInput \in IrisToCompact
        /\ ctxOne \in IriContexts
        /\ ctxTwo = JUndef
        /\ property = JNull
        /\ subject = JUndef
     \/ /\ task = "expandTerm"
        /\ coreInput \in TermsToExpand
        /\ ctxOne \in TermContexts
        /\ ctxTwo = JUndef
        /\ property = JNull
        /\ subject = JUndef

\* the rewrites are not running
CoreIdle ==
  /\ task = "none"
  /\ step = 0
  /\ coreInput = JUndef
  /\ ctxOne = JUndef
  /\ ctxTwo = JUndef
  /\ expanded = JUndef
  /\ compacted = JUndef
  /\ reexpanded = JUndef
  /\ merged = JUndef
  /\ property = JNull
  /\ subject = JUndef
  /\ added = <<>>
  /\ outcome = JUndef

\* the pass is not running
PassIdle ==
  /\ op = "none"
  /\ orig = JNull
  /\ input = JUndef
  /\ urls = EmptyObj
  /\ count = 0
  /\ errors = <<>>
  /\ url = 0
  /\ pc = "idle"
  /\ pending = {}
  /\ fetched = <<>>
  /\ returned = <<>>
  /\ reports = <<>>
  /\ cbCalls = <<>>
  /\ thrown = JNull
  /\ replaced = FALSE
  /\ core = 0

\* jsonld.expand of the document
Expand ==
  /\ task \in {"expandTwice", "roundTrip"}
  /\ step = 0
  /\ expanded' = expandRewrite(coreInput)
  /\ step' = 1
  /\ UNCHANGED <<task, coreInput, ctxOne, ctxTwo, compacted, reexpanded, merged>>
  /\ UNCHANGED <<property, subject, added, outcome>>
  /\ UNCHANGED passVars

\* jsonld.expand of the expanded form
ExpandExpanded ==
  /\ task = "expandTwice"
  /\ step = 1
  /\ ~IsErr(expanded)
  /\ reexpanded' = expandRewrite(expanded)
  /\ step' = 2
  /\ UNCHANGED <<task, coreInput, ctxOne, ctxTwo, expanded, compacted, merged>>
  /\ UNCHANGED <<property, subject, added, outcome>>
  /\ UNCHANGED passVars

\* jsonld.compact of the expanded form with the context ctxTwo
Compact ==
  /\ task = "roundTrip"
  /\ step = 1
  /\ ~IsErr(expanded)
  /\ compacted' = compactRewrite(expanded, ctxTwo)
  /\ step' = 2
  /\ UNCHANGED <<task, coreInput, ctxOne, ctxTwo, expanded, reexpanded, merged>>
  /\ UNCHANGED <<property, subject, added, outcome>>
  /\ UNCHANGED passVars

\* jsonld.expand of the compacted form
ExpandCompacted ==
  /\ task = "roundTrip"
  /\ step = 2
  /\ ~IsErr(compacted)
  /\ reexpanded' = expandRewrite(compacted)
  /\ step' = 3
  /\ UNCHANGED <<task, coreInput, ctxOne, ctxTwo, expanded, compacted, merged>>
  /\ UNCHANGED <<property, subject, added, outcome>>
  /\ UNCHANGED passVars

\* jsonld.mergeContexts of ctxOne and ctxTwo
Merge ==
  /\ task = "merge"
  /\ step = 0
  /\ merged' = mergeRewrite(ctxOne, ctxTwo)
  /\ step' = 1
  /\ UNCHANGED <<task, coreInput, ctxOne, ctxTwo, expanded, compacted,
                 reexpanded>>
  /\ UNCHANGED <<property, subject, added, outcome>>
  /\ UNCHANGED passVars

\* _expandTerm(ctxOne, coreInput): expanded is the term's expansion
ExpandTerm ==
  /\ task = "expandTerm"
  /\ step = 0
  /\ expanded' = _expandTerm(ctxOne, coreInput)
  /\ step' = 1
  /\ UNCHANGED <<task, coreInput, ctxOne, ctxTwo, compacted, reexpanded,
                 merged, property, subject, added, outcome>>
  /\ UNCHANGED passVars

\* Processor.expand(ctxOne, property, coreInput)
ProcessorExpand ==
  /\ task = "processorExpand"
  /\ step = 0
  /\ expanded' = expand(ctxOne, property, coreInput)
  /\ step' = 1
  /\ UNCHANGED <<task, coreInput, ctxOne, ctxTwo, compacted, reexpanded,
                 merged, property, subject, added, outcome>>
  /\ UNCHANGED passVars

\* Processor.compact(ctxTwo, property, coreInput)
ProcessorCompact ==
  /\ task = "processorCompact"
  /\ step = 0
  /\ compacted' = compact(ctxTwo, property, coreInput)
  /\ step' = 1
  /\ UNCHANGED <<task, coreInput, ctxOne, ctxTwo, expanded, reexpanded,
                 merged, property, subject, added, outcome>>
  /\ UNCHANGED passVars

\* jsonld.addValue(subject, property, value, propertyIsArray): a call that
\* throws leaves the subject as it was
AddValue(value, propertyIsArray) ==
  /\ task = "addValue"
  /\ step < MaxAdds
  /\ ~IsErr(outcome)
  /\ LET result == addValue(subject, property[2], value, propertyIsArray)
     IN IF IsErr(result)
        THEN /\ outcome' = result
             /\ UNCHANGED <<subject, added>>
        ELSE /\ subject' = result
             /\ added' = Append(added, value)
             /\ UNCHANGED outcome
  /\ step' = step + 1
  /\ UNCHANGED <<task, coreInput, ctxOne, ctxTwo, expanded, compacted,
                 reexpanded, merged, property>>
  /\ UNCHANGED passVars

\* jsonld.removeValue(subject, property, value, propertyIsArray); coreInput
\* keeps the subject as it was, added the value that was removed and
\* outcome the flag
RemoveValue(value, propertyIsArray) ==
  /\ task = "removeValue"
  /\ step = 0
  /\ subject' = removeValue(subject, property[2], value, propertyIsArray)
  /\ added' = <<value>>
  /\ outcome' = JBool(propertyIsArray)
  /\ step' = 1
  /\ UNCHANGED <<task, coreInput, ctxOne, ctxTwo, expanded, compacted,
                 reexpanded, merged, property>>
  /\ UNCHANGED passVars

\* jsonld.compact(coreInput, ctxTwo, callback) as the caller sees it
CompactCall ==
  /\ task = "jsonld.compact"
  /\ step = 0
  /\ outcome' = publicCall("compact", coreInput)
  /\ step' = 1
  /\ UNCHANGED <<task, coreInput, ctxOne, ctxTwo, expanded, compacted,
                 reexpanded, merged, property, subject, added>>
  /\ UNCHANGED passVars

\* jsonld.expand(coreInput, callback) as the caller sees it
ExpandCall ==
  /\ task = "jsonld.expand"
  /\ step = 0
  /\ outcome' = publicCall("expand", coreInput)
  /\ step' = 1
  /\ UNCHANGED <<task, coreInput, ctxOne, ctxTwo, expanded, compacted,
                 reexpanded, merged, property, subject, added>>
  /\ UNCHANGED passVars

\* jsonld.mergeContexts(ctxOne, ctxTwo, callback) as the caller sees it
MergeContextsCall ==
  /\ task = "jsonld.mergeContexts"
  /\ step = 0
  /\ outcome' = publicCall("mergeContexts", ctxOne)
  /\ step' = 1
  /\ UNCHANGED <<task, coreInput, ctxOne, ctxTwo, expanded, compacted,
                 reexpanded, merged, property, subject, added>>
  /\ UNCHANGED passVars

\* _compactIri(ctxOne, coreInput): compacted is what it returns
CompactIri ==
  /\ task = "compactIri"
  /\ step = 0
  /\ compacted' = _compactIri(ctxOne, coreInput)
  /\ step' = 1
  /\ UNCHANGED <<task, coreInput, ctxOne, ctxTwo, expanded, reexpanded,
                 merged, property, subject, added, outcome>>
  /\ UNCHANGED passVars

CoreNext ==
  \/ Expand
  \/ ExpandExpanded
  \/ Compact
  \/ ExpandCompacted
  \/ Merge
  \/ ExpandTerm
  \/ ProcessorExpand
  \/ ProcessorCompact
  \/ CompactIri
  \/ CompactCall
  \/ ExpandCall
  \/ MergeContextsCall
  \/ \E value \in PropertyValues, propertyIsArray \in BOOLEAN :
       AddValue(value, propertyIsArray)
  \/ \E value \in PropertyValues, propertyIsArray \in BOOLEAN :
       RemoveValue(value, propertyIsArray)

vars == <<passVars, coreVars>>

Init == PassInit /\ CoreIdle
Next == PassNext
Spec == Init /\ [][Next]_vars

InitCore == PassIdle /\ CoreInit
SpecCore == InitCore /\ [][CoreNext]_vars

(***************************************************************************)
(* Properties of the URL resolution pass and of the public operations.     *)
(***************************************************************************)
\* the run is over: the call has returned and no fetch is outstanding
Quiescent == pc = "returned" /\ pending = {}

SuccessReported == \E i \in 1..Len(reports) : reports[i][1] = JNull

\* the URLs of the document, as the discovery traversal of the input finds
\* them
Discovered == KeysOf(findUrls(passInput(op, orig), FALSE, EmptyObj)[2])

\* a resolver result that makes its URL fail: an error, a string that does
\* not parse, or something that is not a map
ResultFails(res) ==
  \/ Truthy(res[1])
  \/ res[2][1] = "str" /\ IsErr(JSONparse(res[2][2]))
  \/ res[2][1] \notin {"str", "obj"}

FailingUrls ==
  {Discovered[i] : i \in {j \in 1..Len(Discovered) :
                            ~UrlRegexTest(Discovered[j])}}
    \cup {returned[i][1] : i \in {j \in 1..Len(returned) :
                                    ResultFails(returned[j][2])}}

\* the @context value of the document the resolver returned
ReturnedContext(res) ==
  LET doc == IF res[2][1] = "str" THEN JSONparse(res[2][2]) ELSE res[2]
  IN Or(Get(doc, kContext), EmptyObj)

\* the document with each URL replaced by what the resolver returned for it
ExpectedReplacement ==
  findUrls(passInput(op, orig), TRUE,
           JObj([i \in 1..Len(returned) |->
                  <<returned[i][1], ReturnedContext(returned[i][2])>>]))[1]

\* no @context anywhere in v is a string or an array holding a string
RECURSIVE NoUrlContext(_)
NoUrlContext(v) ==
  IF _isArray(v) THEN \A i \in 1..Len(v[2]) : NoUrlContext(v[2][i])
  ELSE IF _isObject(v)
  THEN \A i \in 1..Len(v[2]) :
         IF v[2][i][1] = kContext
         THEN /\ v[2][i][2][1] # "str"
              /\ v[2][i][2][1] = "arr" =>
                   \A j \in 1..Len(v[2][i][2][2]) : v[2][i][2][2][j][1] # "str"
         ELSE NoUrlContext(v[2][i][2])
  ELSE TRUE

\* C1: when a public operation's run is over (the call has returned and
\* every fetch has settled), the caller's callback has been invoked
\* exactly once.
C1_CallbackExactlyOnce ==
  (op \in PublicOps /\ Quiescent) => Len(cbCalls) = 1

\* C2: a successful pass has replaced each URL string by the @context of
\* the document the resolver returned for that URL (an empty map if it has
\* none), whatever the order the fetches settled in.
C2_ReplacementFollowsResolver ==
  (op = "resolveUrls" /\ SuccessReported) => input = ExpectedReplacement

C4_OneFetchPerUrl ==
  \A i, j \in 1..Len(fetched) : fetched[i] = fetched[j] => i = j

C4_Witness ==
  /\ op = "resolveUrls"
  /\ orig = WithContext(JArr(<<JStr(U1), JStr(U1)>>))
  /\ fetched = <<U1>>
  /\ Quiescent

\* C5: when some discovered URL fails, the pass reports, once every fetch
\* has settled and not before, exactly one ContextUrlError whose error list
\* has one entry per failing URL.
C5_AggregateErrorReported ==
  /\ (op = "resolveUrls" /\ Quiescent /\ FailingUrls # {}) =>
       /\ Len(reports) = 1
       /\ reports[1][1] # JNull
       /\ reports[1][1][2] = "jsonld.ContextUrlError"
       /\ Len(reports[1][1][3]) = Cardinality(FailingUrls)
  /\ (op = "resolveUrls" /\ Len(reports) > 0 /\ reports[1][1] # JNull) =>
       pending = {}

\* C6: when a context URL of a public operation's input fails, the rewrite
\* core is not run, no URL string is replaced, and the caller's callback
\* has received the error once the run is over.
C6_FailureAbortsOperation ==
  (op \in PublicOps /\ Quiescent /\ FailingUrls # {}) =>
    /\ core = 0
    /\ ~replaced
    /\ Len(cbCalls) = 1
    /\ cbCalls[1][1][1] = "error"

\* C7: after a successful pass no @context of the document, at any depth,
\* holds a URL string or an array with a URL string in it.
C7_NoUrlLeft ==
  (op = "resolveUrls" /\ SuccessReported) => NoUrlContext(input)


(***************************************************************************)
(* Properties of the rewrites.                                             *)
(***************************************************************************)
\* the @id a context resolves a key to
ResolvedId(ctx, key) == getContextValue(ctx, JStr(key), kId, TRUE)

\* C8: for every document whose expansion succeeds, expanding the expanded
\* form gives a structurally equal value: expand(expand(x)) = expand(x).
C8_ExpandIdempotent ==
  (task = "expandTwice" /\ step = 2) => reexpanded = expanded

\* a list document that expansion changes has been expanded twice
C8_Witness ==
  /\ task = "expandTwice"
  /\ step = 2
  /\ _isListValue(expanded)
  /\ expanded # coreInput
  /\ reexpanded = expanded

\* C9: for every input x and every inline context c, expanding x gives a
\* value, compacting that value with c gives a value, and expanding the
\* compacted value gives the expansion of x again:
\* expand(compact(expand(x), c)) = expand(x).
C9_RoundTrip ==
  (task = "roundTrip" /\ step >= 1) =>
    /\ ~IsErr(expanded)
    /\ step >= 2 => ~IsErr(compacted)
    /\ step = 3 => reexpanded = expanded

\* C10: the merge of map contexts c1 and c2 has no key of c1 that c2 does
\* not define and whose resolved @id is the resolved @id of a key of c2,
\* and it has every key of c2 with the entry c2 gives it.
C10_MergeReplaces ==
  (task = "merge" /\ step = 1 /\ ~IsErr(merged)) =>
    /\ \A i \in 1..Len(ctxOne[2]), j \in 1..Len(ctxTwo[2]) :
         (/\ ~HasKey(ctxTwo, ctxOne[2][i][1])
          /\ ResolvedId(ctxTwo, ctxTwo[2][j][1]) # JNull
          /\ ResolvedId(ctxOne, ctxOne[2][i][1])
               = ResolvedId(ctxTwo, ctxTwo[2][j][1]))
           => ~HasKey(merged, ctxOne[2][i][1])
    /\ \A j \in 1..Len(ctxTwo[2]) :
         Get(merged, ctxTwo[2][j][1]) = ctxTwo[2][j][2]
\* C11: for every map context c whose terms are string IRIs or option maps,
\* with or without an @id entry, merge({}, c) = c and merge(c, {}) = c
\* (as maps: the order of the keys does not count).
C11_MergeIdentity ==
  (task = "merge" /\ step = 1) =>
    /\ ctxOne = EmptyObj => _clone(merged) = _clone(ctxTwo)
    /\ ctxTwo = EmptyObj => _clone(merged) = _clone(ctxOne)
\* the context defines a term as the string value
DefinedAs(ctx, term, value) ==
  HasKey(ctx, term) /\ Get(ctx, term) = JStr(value)

\* C12: in a context that defines a as b and b as a, the expansion of a and
\* the expansion of b each end with the CyclicalContext error.
C12_CycleDetected ==
  (/\ task = "expandTerm" /\ step = 1
   /\ DefinedAs(ctxOne, <<"a">>, <<"b">>)
   /\ DefinedAs(ctxOne, <<"b">>, <<"a">>)
   /\ coreInput \in {JStr(<<"a">>), JStr(<<"b">>)})
    => (IsErr(expanded) /\ expanded[2] = "jsonld.CyclicalContext")

\* the term a has been expanded in a context with a as b and b as a
C12_Witness ==
  /\ task = "expandTerm" /\ step = 1
  /\ DefinedAs(ctxOne, <<"a">>, <<"b">>)
  /\ DefinedAs(ctxOne, <<"b">>, <<"a">>)
  /\ coreInput = JStr(<<"a">>)
  /\ IsErr(expanded)

\* what repeating steps 1 to 3 from the value v leads to: the value it
\* stabilizes on, a value seen before, or an exception of a step; fuel
\* bounds the number of steps
RECURSIVE Stabilize(_, _, _, _)
Stabilize(ctx, v, seen, fuel) ==
  LET next == expandTermStep(ctx, v)
  IN IF IsErr(next) \/ fuel = 0 THEN <<"other">>
     ELSE IF next = v THEN <<"value", v>>
     ELSE IF next \in seen THEN <<"cycle">>
     ELSE Stabilize(ctx, next, seen \cup {next}, fuel - 1)

\* C13: when the definitions reached from a term form an acyclic chain,
\* its expansion is the value the chain stabilizes on, and CyclicalContext
\* is raised only when a value occurs twice before stabilization.
C13_ChainStabilizes ==
  (task = "expandTerm" /\ step = 1) =>
    LET chain == Stabilize(ctxOne, coreInput, {coreInput}, MaxChain + 2)
    IN /\ chain[1] = "value" => expanded = chain[2]
       /\ (IsErr(expanded) /\ expanded[2] = "jsonld.CyclicalContext")
            => chain[1] = "cycle"
\* an array is a direct element of an array somewhere in the value
RECURSIVE HasNestedArray(_)
HasNestedArray(v) ==
  \/ /\ _isArray(v)
     /\ \E i \in 1..Len(v[2]) : _isArray(v[2][i]) \/ HasNestedArray(v[2][i])
  \/ /\ _isObject(v)
     /\ \E i \in 1..Len(v[2]) : HasNestedArray(v[2][i][2])

\* C14: expanding or compacting a value in which an array is a direct
\* element of an array, at the top level, inside a @list or under a
\* property of a subject, fails with SyntaxError.
C14_NestedArrayRejected ==
  /\ (task = "processorExpand" /\ step = 1 /\ HasNestedArray(coreInput))
       => expanded = SyntaxError
  /\ (task = "processorCompact" /\ step = 1 /\ HasNestedArray(coreInput))
       => compacted = SyntaxError

\* C15: with the context that maps id to @id, the expansion of a subject
\* that uses the key id carries the identifier under @id, and the
\* compaction of a subject that uses @id carries it under id.
C15_KeywordAlias ==
  /\ (/\ task = "processorExpand" /\ step = 1
      /\ ctxOne = AliasContext
      /\ _isObject(coreInput) /\ HasKey(coreInput, <<"id">>))
       => (/\ _isObject(expanded)
           /\ Get(expanded, kId) = Get(coreInput, <<"id">>))
  /\ (/\ task = "processorCompact" /\ step = 1
      /\ ctxTwo = AliasContext
      /\ _isSubject(coreInput) /\ HasKey(coreInput, kId))
       => (/\ _isObject(compacted)
           /\ Get(compacted, <<"id">>) = Get(coreInput, kId))
\* the values a subject holds under a property, in their order
ValuesOf(s, p) ==
  IF ~HasKey(s, p) THEN <<>>
  ELSE IF _isArray(Get(s, p)) THEN Get(s, p)[2]
  ELSE <<Get(s, p)>>

\* C16: after any sequence of addValue calls on a subject the values of
\* the property contain no duplicate and contain every value that was
\* added.
C16_AddValueSet ==
  task = "addValue" =>
    LET vals == ValuesOf(subject, property[2])
    IN /\ \A i, j \in 1..Len(vals) : vals[i] = vals[j] => i = j
       /\ \A i \in 1..Len(added) : \E j \in 1..Len(vals) : vals[j] = added[i]
\* the elements of a sequence other than v, in their order
RECURSIVE Without(_, _)
Without(vals, v) ==
  IF vals = <<>> THEN <<>>
  ELSE IF Head(vals) = v THEN Without(Tail(vals), v)
       ELSE <<Head(vals)>> \o Without(Tail(vals), v)

\* C17: removeValue leaves the property holding exactly its previous
\* values other than the removed one, in their order: no key when none
\* remain, a scalar for one value unless the property is always an array,
\* and an array otherwise.
C17_RemoveValueExact ==
  (task = "removeValue" /\ step = 1) =>
    LET rest == Without(ValuesOf(coreInput, property[2]), added[1])
    IN IF rest = <<>> THEN ~HasKey(subject, property[2])
       ELSE IF Len(rest) = 1 /\ ~outcome[2]
            THEN Get(subject, property[2]) = rest[1]
            ELSE Get(subject, property[2]) = JArr(rest)
\* the calls of the caller's callback and the exception that left the call
CallbackCalls == outcome[2]
Escaped == outcome[3]

\* C18: when neither the expansion, the merge nor the compaction of a
\* jsonld.compact call fails, the callback is called once with a null
\* error and the compacted document, which has @context whenever the
\* supplied context is not empty.
C18_CompactReports ==
  (/\ task = "jsonld.compact" /\ step = 1
   /\ ~IsErr(compactRewrite(coreInput, ctxTwo)))
    => /\ Escaped = JNull
       /\ Len(CallbackCalls) = 1
       /\ CallbackCalls[1][1] = JNull
       /\ CallbackCalls[1][2] # JUndef
       /\ ctxTwo # EmptyObj =>
            (_isObject(CallbackCalls[1][2]) =>
               HasKey(CallbackCalls[1][2], kContext))
\* the rewrite ends with one of the errors of the library
Raised(v) ==
  /\ IsErr(v)
  /\ v[2] \in {"jsonld.SyntaxError", "jsonld.CyclicalContext",
               "jsonld.InvalidContext", "jsonld.CompactError"}

\* the callback was called once, with the error or a CompactError, and no
\* exception left the call
Reported(err) ==
  /\ Escaped = JNull
  /\ Len(CallbackCalls) = 1
  /\ \/ CallbackCalls[1][1] = err
     \/ /\ IsErr(CallbackCalls[1][1])
        /\ CallbackCalls[1][1][2] = "jsonld.CompactError"

\* C19: when the rewrite of jsonld.expand, jsonld.compact or
\* jsonld.mergeContexts raises an error, the callback is called once with
\* that error (for compact possibly inside a CompactError) and no
\* exception leaves the call.
C19_ErrorsReported ==
  /\ (/\ task = "jsonld.expand" /\ step = 1
      /\ Raised(expandRewrite(coreInput)))
       => Reported(expandRewrite(coreInput))
  /\ (/\ task = "jsonld.compact" /\ step = 1
      /\ Raised(compactRewrite(coreInput, ctxTwo)))
       => Reported(compactRewrite(coreInput, ctxTwo))
  /\ (/\ task = "jsonld.mergeContexts" /\ step = 1
      /\ Raised(mergeRewrite(ctxOne, ctxTwo)))
       => Reported(mergeRewrite(ctxOne, ctxTwo))
\* scheme://rest from the first lexeme on
AbsoluteIri(key) ==
  /\ Len(key) >= 5
  /\ key[1] \in Words
  /\ key[2] = ":" /\ key[3] = "/" /\ key[4] = "/"

\* expanded form: no bare string, number or boolean as an element of an
\* array, of a @list or of a property, and every key that is no keyword
\* is an absolute IRI
RECURSIVE ExpandedForm(_)
ExpandedForm(v) ==
  IF v = JNull THEN TRUE
  ELSE IF _isArray(v) THEN \A i \in 1..Len(v[2]) : ExpandedForm(v[2][i])
  ELSE IF _isObject(v)
  THEN \A i \in 1..Len(v[2]) :
         IF v[2][i][1] # <<>> /\ v[2][i][1][1] = "@"
         THEN v[2][i][1] = kList => ExpandedForm(v[2][i][2])
         ELSE AbsoluteIri(v[2][i][1]) /\ ExpandedForm(v[2][i][2])
  ELSE FALSE

\* C20: a value that Processor.expand returns for a document or for the
\* value of a property is in expanded form, also when the context
\* declares no @type for the property.  A string expanded with no
\* property is a term, not a value.
C20_ExpandedForm ==
  (/\ task = "processorExpand" /\ step = 1
   /\ ~IsErr(expanded)
   /\ ~(property = JNull /\ _isString(coreInput)))
    => ExpandedForm(expanded)
\* the discovered URLs the regex of line 1370 rejects
InvalidUrls ==
  {Discovered[i] : i \in {j \in 1..Len(Discovered) :
                            ~UrlRegexTest(Discovered[j])}}

\* C21: when some discovered URL fails the URL validation, the pass has
\* called its callback with the aggregate error once the call has
\* returned and every issued fetch has settled, also when no fetch was
\* issued and when the resolver called back before the loop reached the
\* invalid URL.
C21_InvalidUrlReported ==
  (op = "resolveUrls" /\ Quiescent /\ InvalidUrls # {}) =>
    /\ Len(reports) = 1
    /\ IsErr(reports[1][1])
    /\ reports[1][1][2] = "jsonld.ContextUrlError"
\* the context declares the container of the property to be a @list
ListContainer(ctx, prop) ==
  /\ _isString(prop)
  /\ HasKey(ctx, prop[2])
  /\ _isObject(Get(ctx, prop[2]))
  /\ Get(Get(ctx, prop[2]), kContainer) = JStr(kList)

\* C22: the expansion of an array whose elements expand is a @list map
\* exactly when the property's container is @list and a plain array
\* otherwise; the expansion of a @list map is a @list map; a number or a
\* boolean under a property is not handled as a list, so its expansion
\* does not fail with the SyntaxError of the list branch.
C22_ListWrapping ==
  (task = "processorExpand" /\ step = 1) =>
    /\ (/\ _isArray(coreInput)
        /\ \A i \in 1..Len(coreInput[2]) :
             /\ ~_isArray(coreInput[2][i])
             /\ ~IsErr(expand(ctxOne, property, coreInput[2][i])))
         => IF ListContainer(ctxOne, property)
            THEN _isListValue(expanded)
            ELSE _isArray(expanded)
    /\ (_isListValue(coreInput) /\ ~IsErr(expanded) /\ expanded # JNull)
         => _isListValue(expanded)
    /\ ((_isNumber(coreInput) \/ _isBoolean(coreInput)) /\ property # JNull)
         => expanded # SyntaxError
\* the IRI a key of a subject stands for: the key itself when it is an
\* absolute IRI, else what the context defines the term as
TermIri(ctx, key) ==
  IF AbsoluteIri(key) THEN key
  ELSE IF _isString(Get(ctx, key)) THEN Get(ctx, key)[2]
  ELSE Get(Get(ctx, key), kId)[2]

\* the key is an absolute IRI or a term the context gives an IRI
KeyDefined(ctx, key) ==
  \/ AbsoluteIri(key)
  \/ /\ HasKey(ctx, key)
     /\ \/ _isString(Get(ctx, key))
        \/ _isObject(Get(ctx, key)) /\ HasKey(Get(ctx, key), kId)

\* C23: the expansion of a subject keeps every key that is an absolute
\* IRI or a term of the context, under its IRI and with an array value,
\* and drops every other key that is no keyword.
C23_SubjectKeys ==
  (/\ task = "processorExpand" /\ step = 1
   /\ _isSubject(coreInput) /\ ~HasKey(coreInput, kContext)
   /\ ~HasNestedArray(coreInput))
    => \A i \in 1..Len(coreInput[2]) :
         (/\ coreInput[2][i][1] # <<>>
          /\ coreInput[2][i][1][1] # "@"
          /\ coreInput[2][i][2] # JNull)
           => /\ _isObject(expanded)
              /\ IF KeyDefined(ctxOne, coreInput[2][i][1])
                 THEN _isArray(Get(expanded,
                                   TermIri(ctxOne, coreInput[2][i][1])))
                 ELSE HasKey(ctxOne, coreInput[2][i][1])
                        \/ ~HasKey(expanded, coreInput[2][i][1])
\* the @id the i-th entry of a context resolves to: <<"value", iri>>, or
\* something else when the entry has no @id or does not resolve
ResolvedEntry(ctx, i) ==
  LET entry == ctx[2][i][2]
      id == IF _isString(entry) THEN entry
            ELSE IF _isObject(entry) /\ HasKey(entry, kId)
            THEN Get(entry, kId) ELSE JUndef
  IN IF id = JUndef THEN <<"none">>
     ELSE Stabilize(ctx, id, {id}, MaxChain + 2)

\* the terms whose resolved @id is the IRI, and those whose resolved @id
\* is a strict prefix of it
ExactTerms(ctx, iri) ==
  {i \in 1..Len(ctx[2]) :
     IsTermKey(ctx[2][i][1]) /\ ResolvedEntry(ctx, i) = <<"value", iri>>}

PrefixTerms(ctx, iri) ==
  {i \in 1..Len(ctx[2]) :
     /\ IsTermKey(ctx[2][i][1])
     /\ ResolvedEntry(ctx, i)[1] = "value"
     /\ _isString(ResolvedEntry(ctx, i)[2])
     /\ StartsWith(iri[2], ResolvedEntry(ctx, i)[2][2])
     /\ Len(iri[2]) > Len(ResolvedEntry(ctx, i)[2][2])}

First(S) == CHOOSE i \in S : \A j \in S : i <= j

\* the compact form by order of preference: exact term, keyword alias,
\* prefix, the IRI itself
Preferred(ctx, iri) ==
  IF ExactTerms(ctx, iri) # {}
  THEN JStr(ctx[2][First(ExactTerms(ctx, iri))][1])
  ELSE IF HasKey(_getKeywords(ctx), iri[2])
  THEN Get(_getKeywords(ctx), iri[2])
  ELSE IF PrefixTerms(ctx, iri) # {}
  THEN LET i == First(PrefixTerms(ctx, iri))
       IN JStr(ctx[2][i][1] \o <<":">>
                 \o SubSeq(iri[2], Len(ResolvedEntry(ctx, i)[2][2]) + 1,
                           Len(iri[2])))
  ELSE iri

C26_RemoveAbsentValueKeeps ==
  (/\ task = "removeValue" /\ step = 1
   /\ ValuesOf(coreInput, property[2]) # <<>>
   /\ \A i \in 1..Len(ValuesOf(coreInput, property[2])) :
        ValuesOf(coreInput, property[2])[i] # added[1])
    => /\ HasKey(subject, property[2])
       /\ ValuesOf(subject, property[2]) = ValuesOf(coreInput, property[2])
       /\ Del(subject, property[2]) = Del(coreInput, property[2])
=============================================================================
